---- MODULE Spec2Model ----
(***************************************************************************)
(* Model of src/demo2.py: the LexiBot RAG API.                             *)
(*                                                                         *)
(*  - lifespan: builds the module-level components in order, yields,       *)
(*    then shuts the ThreadPoolExecutor down.                              *)
(*  - rag_query: submits run_preprocessing and run_rag_pipeline to the     *)
(*    executor, joins both with asyncio.gather(return_exceptions=True),    *)
(*    applies the fallbacks and builds the RAGQueryResponse.               *)
(*  - health_check, warmup, format_sources_optimized.                      *)
(*                                                                         *)
(* Python values are tagged records: a dict carries its items over a fixed *)
(* key set, a key the dict lacks being mapped to Absent; None is the       *)
(* Python None.  Collaborators (the chains, the model loaders) are opaque: *)
(* each invocation returns one of a small set of values or raises.         *)
(***************************************************************************)
EXTENDS Naturals, Sequences, FiniteSets

\* ------------------------------------------------------------- bounds
\* Number of request slots: requests being handled at the same time.  The
\* two tasks of one request already run concurrently on the executor.
MaxRequests == 1

\* Length of the longest list of documents handed to format_sources_optimized.
MaxDocs == 2

\* ------------------------------------------------- program constants
\* ThreadPoolExecutor(max_workers=4)
max_workers == 4

\* content[:200] / len(content) > 200
PreviewLen == 200

\* HTTPException(status_code=500, ...)
status_code_500 == 500

\* the characters of "..." (a character is its code)
Dot == 46

\* ------------------------------------------------------ Python values
None == "<None>"
Absent == "<absent>"

Dict(items) == [type |-> "dict", items |-> items]
Text(s) == [type |-> "str", s |-> s]
Exc(msg) == [type |-> "Exception", msg |-> msg]

\* isinstance(v, Exception), isinstance(v, dict)
IsException(v) == v.type = "Exception"
IsDict(v) == v.type = "dict"

\* d.get(key, default) on the items of a dict
Get(items, key, default) == IF items[key] = Absent THEN default ELSE items[key]

\* Optional[List]: None, or a list
NoneList == [some |-> FALSE, list |-> <<>>]
SomeList(l) == [some |-> TRUE, list |-> l]

\* `not sources`: None and the empty list are falsy
Falsy(opt) == ~opt.some \/ Len(opt.list) = 0

VARIABLES
    \* module globals (lines 23-30)
    embeddings, weaviate_client, llm, reranker, retriever, qa_chain,
    preprocessing_chain, executor,
    \* position of lifespan() and the error it raised, if any
    lifespan_pc, startup_error,
    \* the executor: its shutdown flag and its FIFO work queue
    pool_shutdown, work_queue,
    \* per request slot: position of the handler, the route that was called,
    \* the request's question, the two futures, what preprocessing_chain.invoke
    \* did, what rag_query produced, and what the HTTP caller received
    handler, endpoint, question, preprocessing_future, rag_future,
    preprocessing_invoked, outcome, reply,
    \* the last /health report
    health

registry == <<embeddings, weaviate_client, llm, reranker, retriever, qa_chain,
              preprocessing_chain>>
lifecycle == <<lifespan_pc, startup_error>>
pool == <<executor, pool_shutdown, work_queue>>
requests == <<handler, endpoint, question, preprocessing_future, rag_future,
              preprocessing_invoked, outcome, reply>>
vars == <<registry, lifecycle, pool, requests, health>>

\* The request slots of the state.
Requests == DOMAIN handler

\* ---------------------------------------------------------- lifespan
\* What a loader or constructor of a component can give back.
Loaded(name) == {name, None}

\* lifespan() raised during startup: the application never serves.
StartupFails(msg) ==
    /\ lifespan_pc' = "failed"
    /\ startup_error' = msg

\* lines 38-40: the executor is created before the first build step
LifespanStart ==
    /\ lifespan_pc = "start"
    /\ executor' = "ThreadPoolExecutor"
    /\ pool_shutdown' = FALSE
    /\ work_queue' = <<>>
    /\ lifespan_pc' = "embeddings"
    /\ UNCHANGED <<registry, startup_error, requests, health>>

\* lines 42-45
LoadEmbeddings ==
    /\ lifespan_pc = "embeddings"
    /\ \/ /\ StartupFails("get_huggingface_embeddings raised")
          /\ UNCHANGED embeddings
       \/ \E res \in Loaded("embeddings") :
            /\ embeddings' = res
            /\ IF res = None
                 THEN StartupFails("Failed to load embedding model.")
                 ELSE lifespan_pc' = "weaviate" /\ UNCHANGED startup_error
    /\ UNCHANGED <<weaviate_client, llm, reranker, retriever, qa_chain,
                   preprocessing_chain, pool, requests, health>>

\* lines 47-50
ConnectWeaviate ==
    /\ lifespan_pc = "weaviate"
    /\ \/ /\ StartupFails("connect_to_weaviate raised")
          /\ UNCHANGED weaviate_client
       \/ \E res \in Loaded("weaviate_client") :
            /\ weaviate_client' = res
            /\ IF res = None
                 THEN StartupFails("Failed to connect to Weaviate.")
                 ELSE lifespan_pc' = "llm" /\ UNCHANGED startup_error
    /\ UNCHANGED <<embeddings, llm, reranker, retriever, qa_chain,
                   preprocessing_chain, pool, requests, health>>

\* lines 52-57: get_google_llm is called only when the API key is set
LoadLLM ==
    /\ lifespan_pc = "llm"
    /\ \/ /\ StartupFails("get_google_llm raised")
          /\ UNCHANGED llm
       \/ \E google_api_key \in {None, "key"} :
          \E res \in Loaded("llm") :
            /\ llm' = IF google_api_key = None THEN llm ELSE res
            /\ IF llm' = None
                 THEN StartupFails("Failed to load LLM. Please set GOOGLE_API_KEY.")
                 ELSE lifespan_pc' = "reranker" /\ UNCHANGED startup_error
    /\ UNCHANGED <<embeddings, weaviate_client, reranker, retriever, qa_chain,
                   preprocessing_chain, pool, requests, health>>

\* lines 59-62
LoadReranker ==
    /\ lifespan_pc = "reranker"
    /\ \/ /\ StartupFails("get_reranker_compressor raised")
          /\ UNCHANGED reranker
       \/ \E res \in Loaded("reranker") :
            /\ reranker' = res
            /\ IF res = None
                 THEN StartupFails("Failed to load reranker.")
                 ELSE lifespan_pc' = "retriever" /\ UNCHANGED startup_error
    /\ UNCHANGED <<embeddings, weaviate_client, llm, retriever, qa_chain,
                   preprocessing_chain, pool, requests, health>>

\* lines 64-71: a constructor call gives an object or raises
SetupRetriever ==
    /\ lifespan_pc = "retriever"
    /\ \/ /\ StartupFails("AdvancedLawRetriever raised")
          /\ UNCHANGED retriever
       \/ /\ retriever' = "retriever"
          /\ lifespan_pc' = "qa_chain"
          /\ UNCHANGED startup_error
    /\ UNCHANGED <<embeddings, weaviate_client, llm, reranker, qa_chain,
                   preprocessing_chain, pool, requests, health>>

\* lines 73-78: the result of create_qa_chain is stored without a check
BuildQAChain ==
    /\ lifespan_pc = "qa_chain"
    /\ \/ /\ StartupFails("create_qa_chain raised")
          /\ UNCHANGED qa_chain
       \/ \E res \in Loaded("qa_chain") :
            /\ qa_chain' = res
            /\ lifespan_pc' = "preprocessing_chain"
            /\ UNCHANGED startup_error
    /\ UNCHANGED <<embeddings, weaviate_client, llm, reranker, retriever,
                   preprocessing_chain, pool, requests, health>>

\* lines 80-86: prompt | llm | parser gives a chain or raises; then yield
BuildPreprocessingChain ==
    /\ lifespan_pc = "preprocessing_chain"
    /\ \/ /\ StartupFails("building the preprocessing chain raised")
          /\ UNCHANGED preprocessing_chain
       \/ /\ preprocessing_chain' = "preprocessing_chain"
          /\ lifespan_pc' = "serving"
          /\ UNCHANGED startup_error
    /\ UNCHANGED <<embeddings, weaviate_client, llm, reranker, retriever,
                   qa_chain, pool, requests, health>>

\* -------------------------------------------------- collaborator data
\* A text is the sequence of its character codes.
Content(n) == [i \in 1 .. n |-> 97 + (i % 26)]

Doc(content, source) == [page_content |-> content, metadata |-> [source |-> source]]

DocShort == Doc(Content(3), "doc1")
DocLong == Doc(Content(PreviewLen + 1), Absent)

\* What preprocessing_chain.invoke can return (JsonOutputParser gives any JSON
\* value): the expected record, a record without the keys, a record whose
\* keys are null, a value that is no record.
PreprocessingValues ==
    { Dict([classification |-> "traffic_law", rewritten_question |-> "rewritten"]),
      Dict([classification |-> Absent, rewritten_question |-> Absent]),
      Dict([classification |-> None, rewritten_question |-> None]),
      Text("not a record") }

PreprocessingOutcomes == PreprocessingValues \cup {Exc("preprocessing error")}

\* What qa_chain.invoke can return.
RagValues ==
    { Dict([answer |-> "the answer", context |-> SomeList(<<DocShort, DocLong>>)]),
      Dict([answer |-> "the answer", context |-> SomeList(<<>>)]),
      Dict([answer |-> Absent, context |-> NoneList]),
      Dict([answer |-> None, context |-> NoneList]),
      Dict([answer |-> "", context |-> NoneList]),
      Text("free text") }

RagOutcomes == RagValues \cup {Exc("rag error")}

\* The question of a /rag/query request, and warmup's test_query (line 217,
\* written here without its diacritics).
Questions == {"What is the speed limit?"}
test_query == "Luat giao thong"

\* ------------------------------------------------------ pure functions
\* A fallback record with its two values swapped.
run_preprocessing_swapped(q, invoked) ==
    IF IsException(invoked)
      THEN Dict([classification |-> q, rewritten_question |-> "unknown"])
      ELSE invoked

\* A task without the try/except: the collaborator's exception ends it.
run_preprocessing_reraises(q, invoked) == invoked

\* lines 110-116: the collaborator's exception becomes the fallback record
run_preprocessing(q, invoked) ==
    IF IsException(invoked)
      THEN Dict([classification |-> "unknown", rewritten_question |-> q])
      ELSE invoked

\* lines 119-122: the value, or the exception, of qa_chain.invoke
run_rag_pipeline(q, invoked) == invoked

\* A preview that truncates from the limit on (>= instead of >).
Preview_AtLimit(content) ==
    LET preview == SubSeq(content, 1,
                          IF Len(content) < PreviewLen THEN Len(content) ELSE PreviewLen)
    IN  IF Len(content) >= PreviewLen THEN preview \o <<Dot, Dot, Dot>> ELSE preview

\* lines 132-135
Preview(content) ==
    LET preview == SubSeq(content, 1,
                          IF Len(content) < PreviewLen THEN Len(content) ELSE PreviewLen)
    IN  IF Len(content) > PreviewLen THEN preview \o <<Dot, Dot, Dot>> ELSE preview

\* lines 137-140
FormatDoc(doc) ==
    [source |-> Get(doc.metadata, "source", "[No source]"),
     preview |-> Preview(doc.page_content)]

\* A format that tests `sources is None` instead of `not sources`.
format_sources_none_only(sources) ==
    IF ~sources.some
      THEN NoneList
      ELSE SomeList([i \in 1 .. Len(sources.list) |-> FormatDoc(sources.list[i])])

\* lines 125-142
format_sources_optimized(sources) ==
    IF Falsy(sources)
      THEN NoneList
      ELSE SomeList([i \in 1 .. Len(sources.list) |-> FormatDoc(sources.list[i])])

\* str(v): a str is itself, a dict is its printed form
Str(v) == IF v.type = "str" THEN v.s ELSE "{printed dict}"

HTTPException(text, cause) ==
    [kind |-> "HTTPException", status_code |-> status_code_500,
     detail |-> [text |-> text, cause |-> cause]]

\* lines 196-198: any other exception of the try block
Unexpected(cause) == HTTPException("Error during RAG pipeline: ", cause)

\* A response model that accepts null core fields.
RAGQueryResponse_NoValidation(classification, rewritten_question, answer, sources) ==
    [kind |-> "RAGQueryResponse",
     classification |-> classification,
     rewritten_question |-> rewritten_question,
     answer |-> answer,
     sources |-> sources]

\* lines 103-107, 187-192: the three core fields must be str
RAGQueryResponse(classification, rewritten_question, answer, sources) ==
    IF classification = None \/ rewritten_question = None \/ answer = None
      THEN Unexpected("ValidationError")
      ELSE [kind |-> "RAGQueryResponse",
            classification |-> classification,
            rewritten_question |-> rewritten_question,
            answer |-> answer,
            sources |-> sources]

\* A response whose answer is always the printed value of the task.
BuildResponse_PrintsValue(classification, rewritten_question, rag_result) ==
    LET sources == IF IsDict(rag_result) THEN rag_result.items.context ELSE NoneList
    IN  RAGQueryResponse(classification, rewritten_question, Str(rag_result),
                         format_sources_optimized(sources))

\* lines 178-192: rag_result is no exception
BuildResponse(classification, rewritten_question, rag_result) ==
    LET answer == IF IsDict(rag_result)
                    THEN Get(rag_result.items, "answer", Str(rag_result))
                    ELSE Str(rag_result)
        sources == IF IsDict(rag_result) THEN rag_result.items.context ELSE NoneList
    IN  RAGQueryResponse(classification, rewritten_question, answer,
                         format_sources_optimized(sources))

\* lines 175-192
AfterPreprocessing(classification, rewritten_question, rag_result) ==
    IF IsException(rag_result)
      THEN HTTPException("RAG pipeline failed: ", rag_result.msg)
      ELSE BuildResponse(classification, rewritten_question, rag_result)

\* lines 167-198: what rag_query returns or raises once gather has returned
rag_query_join(q, preprocessing_result, rag_result) ==
    IF IsException(preprocessing_result)
      THEN AfterPreprocessing("unknown", q, rag_result)
      ELSE IF ~IsDict(preprocessing_result)
        THEN Unexpected("AttributeError: no attribute 'get'")
        ELSE AfterPreprocessing(
               Get(preprocessing_result.items, "classification", "unknown"),
               Get(preprocessing_result.items, "rewritten_question", q),
               rag_result)

\* What the HTTP caller of a route gets: a body returned, or an error raised.
Returned(body) == [raised |-> FALSE, body |-> body]
Raised(error) == [raised |-> TRUE, body |-> error]

\* A warmup whose try block lets the HTTPException of rag_query through.
warmup_reraises(result) ==
    IF result.kind = "HTTPException"
      THEN Raised(result)
      ELSE Returned([status |-> "warmed up successfully"])

\* lines 214-223: warmup catches every Exception of rag_query
warmup(result) ==
    IF result.kind = "HTTPException"
      THEN Returned([status |-> "warmup completed with warnings",
                     warning |-> result.detail])
      ELSE Returned([status |-> "warmed up successfully"])

\* lines 145-146, 214-215: the route's reply
Reply(route, result) ==
    IF route = "warmup"
      THEN warmup(result)
      ELSE IF result.kind = "HTTPException" THEN Raised(result) ELSE Returned(result)

\* ------------------------------------------------------------ futures
NoResult == [type |-> "pending"]
NoFuture == [state |-> "none", result |-> NoResult]
Queued == [state |-> "queued", result |-> NoResult]
Running == [state |-> "running", result |-> NoResult]
Done(result) == [state |-> "done", result |-> result]

NoOutcome == [kind |-> "none"]
NoReply == Returned(NoOutcome)

\* Both tasks of the request have ended, by a value or by an exception.
GatherDone(r) ==
    /\ preprocessing_future[r].state = "done"
    /\ rag_future[r].state = "done"

\* Workers that died with their task's exception and were never replaced.
RunningTasks_Leak ==
    {<<r, "preprocessing">> : r \in {x \in Requests :
        \/ preprocessing_future[x].state = "running"
        \/ preprocessing_future[x].state = "done"
             /\ IsException(preprocessing_invoked[x])}}
    \cup {<<r, "rag">> : r \in {x \in Requests :
        \/ rag_future[x].state = "running"
        \/ rag_future[x].state = "done" /\ IsException(rag_future[x].result)}}

\* Tasks a worker thread is executing.
RunningTasks ==
    {<<r, "preprocessing">> : r \in {x \in Requests : preprocessing_future[x].state = "running"}}
    \cup {<<r, "rag">> : r \in {x \in Requests : rag_future[x].state = "running"}}

\* Tasks waiting in the executor's queue.
QueuedTasks == {work_queue[i] : i \in 1 .. Len(work_queue)}

\* The routes are served before lifespan ran (nothing is initialized), while
\* it is suspended at its yield, and after it returned; its startup and its
\* executor.shutdown(wait=True) are synchronous and block the event loop.
EventLoopFree == lifespan_pc \in {"start", "serving", "stopped"}

\* -------------------------------------------------------------- Init
\* The module as imported (lines 23-30), with the request slots idle.
InitSlots(slots) ==
    /\ embeddings = None
    /\ weaviate_client = None
    /\ llm = None
    /\ reranker = None
    /\ retriever = None
    /\ qa_chain = None
    /\ preprocessing_chain = None
    /\ executor = None
    /\ lifespan_pc = "start"
    /\ startup_error = None
    /\ pool_shutdown = FALSE
    /\ work_queue = <<>>
    /\ handler = [r \in slots |-> "idle"]
    /\ endpoint = [r \in slots |-> None]
    /\ question = [r \in slots |-> None]
    /\ preprocessing_future = [r \in slots |-> NoFuture]
    /\ rag_future = [r \in slots |-> NoFuture]
    /\ preprocessing_invoked = [r \in slots |-> NoResult]
    /\ outcome = [r \in slots |-> NoOutcome]
    /\ reply = [r \in slots |-> NoReply]
    /\ health = [status |-> None]

Init == InitSlots(1 .. MaxRequests)

\* ---------------------------------------------------------- rag_query
\* rag_query raises or returns: the handler is over.
Finish(r, route, result) ==
    /\ handler' = [handler EXCEPT ![r] = "returned"]
    /\ outcome' = [outcome EXCEPT ![r] = result]
    /\ reply' = [reply EXCEPT ![r] = Reply(route, result)]

\* executor.submit: refused once the executor is shut down
SubmitRefused == pool_shutdown

\* A check that asks for both chains to be missing.
PipelineNotInitialized_Both == qa_chain = None /\ preprocessing_chain = None

\* line 149: `not qa_chain or not preprocessing_chain`
PipelineNotInitialized == qa_chain = None \/ preprocessing_chain = None

NotInitializedError == HTTPException("RAG pipeline not initialized.", "")
SubmitRefusedError ==
    Unexpected("RuntimeError: cannot schedule new futures after shutdown")

\* lines 146-161: the check of the chains, then both run_in_executor calls;
\* the handler suspends at the gather of line 163.
RagQueryStart(r, route, q) ==
    /\ EventLoopFree
    /\ handler[r] = "idle"
    /\ endpoint' = [endpoint EXCEPT ![r] = route]
    /\ question' = [question EXCEPT ![r] = q]
    /\ IF PipelineNotInitialized
         THEN /\ Finish(r, route, NotInitializedError)
              /\ UNCHANGED <<work_queue, preprocessing_future, rag_future>>
         ELSE IF SubmitRefused
           THEN /\ Finish(r, route, SubmitRefusedError)
                /\ UNCHANGED <<work_queue, preprocessing_future, rag_future>>
           ELSE /\ work_queue' = work_queue \o <<<<r, "preprocessing">>, <<r, "rag">>>>
                /\ preprocessing_future' = [preprocessing_future EXCEPT ![r] = Queued]
                /\ rag_future' = [rag_future EXCEPT ![r] = Queued]
                /\ handler' = [handler EXCEPT ![r] = "gather"]
                /\ UNCHANGED <<outcome, reply>>
    /\ UNCHANGED <<registry, lifecycle, executor, pool_shutdown,
                   preprocessing_invoked, health>>

\* POST /rag/query
Query(r, q) == RagQueryStart(r, "query", q)

\* POST /warmup: rag_query with the test request (lines 217-219)
Warmup(r) == RagQueryStart(r, "warmup", test_query)

\* A gather without return_exceptions: the first exception ends the wait.
GatherReady_FirstException(r) ==
    \/ /\ preprocessing_future[r].state = "done"
       /\ rag_future[r].state = "done"
    \/ /\ preprocessing_future[r].state = "done"
       /\ IsException(preprocessing_future[r].result)
    \/ /\ rag_future[r].state = "done"
       /\ IsException(rag_future[r].result)

\* gather(..., return_exceptions=True) is done when both futures are
GatherReady(r) ==
    /\ preprocessing_future[r].state = "done"
    /\ rag_future[r].state = "done"

\* A handler that closes the database client once it has its results.
RagQueryJoin_ClosesClient(r) ==
    /\ EventLoopFree
    /\ handler[r] = "gather"
    /\ GatherReady(r)
    /\ Finish(r, endpoint[r],
              rag_query_join(question[r], preprocessing_future[r].result,
                             rag_future[r].result))
    /\ weaviate_client' = None
    /\ UNCHANGED <<embeddings, llm, reranker, retriever, qa_chain, preprocessing_chain,
                   lifecycle, pool, endpoint, question,
                   preprocessing_future, rag_future, preprocessing_invoked, health>>

\* lines 163-198 (and 220-223 for warmup)
RagQueryJoin(r) ==
    /\ EventLoopFree
    /\ handler[r] = "gather"
    /\ GatherReady(r)
    /\ Finish(r, endpoint[r],
              rag_query_join(question[r], preprocessing_future[r].result,
                             rag_future[r].result))
    /\ UNCHANGED <<registry, lifecycle, pool, endpoint, question,
                   preprocessing_future, rag_future, preprocessing_invoked, health>>

\* The reply has been sent: the slot serves the next request.
Respond(r) ==
    /\ handler[r] = "returned"
    /\ handler' = [handler EXCEPT ![r] = "idle"]
    /\ endpoint' = [endpoint EXCEPT ![r] = None]
    /\ question' = [question EXCEPT ![r] = None]
    /\ preprocessing_future' = [preprocessing_future EXCEPT ![r] = NoFuture]
    /\ rag_future' = [rag_future EXCEPT ![r] = NoFuture]
    /\ preprocessing_invoked' = [preprocessing_invoked EXCEPT ![r] = NoResult]
    /\ outcome' = [outcome EXCEPT ![r] = NoOutcome]
    /\ reply' = [reply EXCEPT ![r] = NoReply]
    /\ UNCHANGED <<registry, lifecycle, pool, health>>

\* ------------------------------------------------------ worker threads
\* A worker that starts answer generation only once preprocessing is done.
WorkerStart_Sequential ==
    /\ work_queue # <<>>
    /\ Cardinality(RunningTasks) < max_workers
    /\ Head(work_queue)[2] = "rag" =>
         preprocessing_future[Head(work_queue)[1]].state = "done"
    /\ LET task == Head(work_queue)
       IN  /\ work_queue' = Tail(work_queue)
           /\ IF task[2] = "preprocessing"
                THEN /\ preprocessing_future' =
                          [preprocessing_future EXCEPT ![task[1]] = Running]
                     /\ UNCHANGED rag_future
                ELSE /\ rag_future' = [rag_future EXCEPT ![task[1]] = Running]
                     /\ UNCHANGED preprocessing_future
    /\ UNCHANGED <<registry, lifecycle, executor, pool_shutdown, handler, endpoint,
                   question, preprocessing_invoked, outcome, reply, health>>

\* An executor that starts a thread for every task.
WorkerStart_Unbounded ==
    /\ work_queue # <<>>
    /\ LET task == Head(work_queue)
       IN  /\ work_queue' = Tail(work_queue)
           /\ IF task[2] = "preprocessing"
                THEN /\ preprocessing_future' =
                          [preprocessing_future EXCEPT ![task[1]] = Running]
                     /\ UNCHANGED rag_future
                ELSE /\ rag_future' = [rag_future EXCEPT ![task[1]] = Running]
                     /\ UNCHANGED preprocessing_future
    /\ UNCHANGED <<registry, lifecycle, executor, pool_shutdown, handler, endpoint,
                   question, preprocessing_invoked, outcome, reply, health>>

\* An idle worker (at most max_workers exist) takes the head of the queue.
WorkerStart ==
    /\ work_queue # <<>>
    /\ Cardinality(RunningTasks) < max_workers
    /\ LET task == Head(work_queue)
       IN  /\ work_queue' = Tail(work_queue)
           /\ IF task[2] = "preprocessing"
                THEN /\ preprocessing_future' =
                          [preprocessing_future EXCEPT ![task[1]] = Running]
                     /\ UNCHANGED rag_future
                ELSE /\ rag_future' = [rag_future EXCEPT ![task[1]] = Running]
                     /\ UNCHANGED preprocessing_future
    /\ UNCHANGED <<registry, lifecycle, executor, pool_shutdown, handler, endpoint,
                   question, preprocessing_invoked, outcome, reply, health>>

\* run_preprocessing ends: preprocessing_chain.invoke returned or raised
WorkerFinishPreprocessing(r, invoked) ==
    /\ preprocessing_future[r].state = "running"
    /\ preprocessing_invoked' = [preprocessing_invoked EXCEPT ![r] = invoked]
    /\ preprocessing_future' =
         [preprocessing_future EXCEPT ![r] = Done(run_preprocessing(question[r], invoked))]
    /\ UNCHANGED <<registry, lifecycle, pool, handler, endpoint, question,
                   rag_future, outcome, reply, health>>

\* run_rag_pipeline ends: qa_chain.invoke returned or raised
WorkerFinishRag(r, invoked) ==
    /\ rag_future[r].state = "running"
    /\ rag_future' = [rag_future EXCEPT ![r] = Done(run_rag_pipeline(question[r], invoked))]
    /\ UNCHANGED <<registry, lifecycle, pool, handler, endpoint, question,
                   preprocessing_future, preprocessing_invoked, outcome, reply, health>>

\* ------------------------------------------------------------ /health
\* lines 201-211; `at` records where lifespan stood when the report was made
health_check ==
    [status |-> "healthy",
     components |-> [llm |-> llm # None,
                     retriever |-> retriever # None,
                     qa_chain |-> qa_chain # None,
                     preprocessing_chain |-> preprocessing_chain # None],
     at |-> lifespan_pc]

Health ==
    /\ EventLoopFree
    /\ health' = health_check
    /\ UNCHANGED <<registry, lifecycle, pool, requests>>

\* ----------------------------------------------------------- shutdown
\* A lifespan whose shutdown code sits in a finally block: it also runs when
\* startup raised.
LifespanShutdown_Finally ==
    /\ lifespan_pc \in {"serving", "failed"}
    /\ IF executor # None
         THEN pool_shutdown' = TRUE /\ lifespan_pc' = "shutdown_wait"
         ELSE lifespan_pc' = "stopped" /\ UNCHANGED pool_shutdown
    /\ UNCHANGED <<registry, startup_error, executor, work_queue, requests, health>>

\* lines 88-91: executor.shutdown(wait=True) sets the shutdown flag ...
LifespanShutdown ==
    /\ lifespan_pc = "serving"
    /\ IF executor # None
         THEN pool_shutdown' = TRUE /\ lifespan_pc' = "shutdown_wait"
         ELSE lifespan_pc' = "stopped" /\ UNCHANGED pool_shutdown
    /\ UNCHANGED <<registry, startup_error, executor, work_queue, requests, health>>

\* A shutdown that waits for the queue to drain but not for running tasks.
PoolIdle_QueueOnly == work_queue = <<>>

\* ... and returns when the workers have drained the queue and ended
PoolIdle == work_queue = <<>> /\ RunningTasks = {}

ShutdownReturns ==
    /\ lifespan_pc = "shutdown_wait"
    /\ PoolIdle
    /\ lifespan_pc' = "stopped"
    /\ UNCHANGED <<registry, startup_error, pool, requests, health>>

\* --------------------------------------------------------------- Next
Next ==
    \/ LifespanStart
    \/ LoadEmbeddings
    \/ ConnectWeaviate
    \/ LoadLLM
    \/ LoadReranker
    \/ SetupRetriever
    \/ BuildQAChain
    \/ BuildPreprocessingChain
    \/ LifespanShutdown
    \/ ShutdownReturns
    \/ Health
    \/ WorkerStart
    \/ \E r \in Requests :
         \/ \E q \in Questions : Query(r, q)
         \/ Warmup(r)
         \/ RagQueryJoin(r)
         \/ Respond(r)
         \/ \E invoked \in PreprocessingOutcomes : WorkerFinishPreprocessing(r, invoked)
         \/ \E invoked \in RagOutcomes : WorkerFinishRag(r, invoked)

Spec == Init /\ [][Next]_vars

\* ------------------------------------------------------------- claims
Submitted(r) ==
    preprocessing_future[r].state # "none" \/ rag_future[r].state # "none"

Pending(future) == future.state \in {"queued", "running"}

\* The request passed the check of line 149 and both submissions.
Joined(r) ==
    /\ handler[r] = "returned"
    /\ outcome[r] \notin {NotInitializedError, SubmitRefusedError}

\* C1: a request that passed the initialization check has its outcome only
\* once both the preprocessing task and the answer-generation task are done;
\* no handler has returned while one of its tasks is queued or running.
C1_JoinNotRace ==
    \A r \in Requests :
        /\ outcome[r] # NoOutcome <=> handler[r] = "returned"
        /\ handler[r] = "returned" =>
             /\ ~Pending(preprocessing_future[r])
             /\ ~Pending(rag_future[r])
        /\ Joined(r) => GatherDone(r)

\* The answer-generation task has failed, preprocessing is still running,
\* and the handler is still suspended at the gather.
C1_Witness ==
    \E r \in Requests :
        /\ handler[r] = "gather"
        /\ rag_future[r].state = "done"
        /\ IsException(rag_future[r].result)
        /\ preprocessing_future[r].state = "running"

\* The request was joined and its answer-generation task returned a value.
AnswerGenerated(r) ==
    /\ handler[r] = "returned"
    /\ GatherDone(r)
    /\ ~IsException(rag_future[r].result)

\* The answer a value of the answer-generation task carries: the answer
\* field of a record that has one, the printed value otherwise.
ProducedAnswer(v) ==
    IF IsDict(v) /\ v.items.answer # Absent THEN v.items.answer ELSE Str(v)

\* The raw sources a value of the answer-generation task carries.
RawSources(v) == IF IsDict(v) THEN v.items.context ELSE NoneList

\* The fallback response of a request whose preprocessing failed.
FallbackResponse(r) ==
    /\ outcome[r].kind = "RAGQueryResponse"
    /\ outcome[r].classification = "unknown"
    /\ outcome[r].rewritten_question = question[r]
    /\ outcome[r].answer = ProducedAnswer(rag_future[r].result)
    /\ endpoint[r] = "query" => reply[r] = Returned(outcome[r])

C3_AnswerFailureIsPipelineError ==
    \A r \in Requests :
        (handler[r] = "returned" /\ GatherDone(r)
            /\ IsException(rag_future[r].result)) =>
            /\ outcome[r].kind = "HTTPException"
            /\ outcome[r].status_code = 500
            /\ outcome[r].detail =
                 [text |-> "RAG pipeline failed: ", cause |-> rag_future[r].result.msg]
            /\ endpoint[r] = "query" => reply[r] = Raised(outcome[r])

\* C4: when the answer-generation task returned a value, whatever the two
\* collaborators returned, the request returns a RAGQueryResponse whose
\* answer is a non-empty string and whose classification and
\* rewritten_question are strings, never None or missing.
C4_ResponseAlwaysPopulated ==
    \A r \in Requests :
        AnswerGenerated(r) =>
            /\ outcome[r].kind = "RAGQueryResponse"
            /\ outcome[r].answer \notin {"", None, Absent}
            /\ outcome[r].classification \notin {None, Absent}
            /\ outcome[r].rewritten_question \notin {None, Absent}

\* C5: lifespan reaches its yield (the application serves) only with all
\* seven components built: a build step that gives None or raises ends
\* startup with an error.
C5_ServingOnlyFullyInitialized ==
    lifespan_pc = "serving" =>
        /\ embeddings # None
        /\ weaviate_client # None
        /\ llm # None
        /\ reranker # None
        /\ retriever # None
        /\ qa_chain # None
        /\ preprocessing_chain # None

\* C6: a request that starts while qa_chain or preprocessing_chain is None
\* is answered at once with the 500 "RAG pipeline not initialized." error;
\* it submits nothing to the executor and invokes no collaborator.
C6_NotInitializedFailsAtOnce ==
    /\ [](\A r \in Requests :
            (handler[r] = "returned"
                /\ outcome[r].kind = "HTTPException"
                /\ outcome[r].detail.text = "RAG pipeline not initialized.") =>
                /\ ~Submitted(r)
                /\ preprocessing_invoked[r] = NoResult)
    /\ [][\A r \in Requests :
            (handler[r] = "idle" /\ handler'[r] # "idle"
                /\ (qa_chain = None \/ preprocessing_chain = None)) =>
                /\ handler'[r] = "returned"
                /\ outcome'[r].kind = "HTTPException"
                /\ outcome'[r].status_code = 500
                /\ outcome'[r].detail.text = "RAG pipeline not initialized."
                /\ endpoint'[r] = "query" => reply'[r] = Raised(outcome'[r])
                /\ work_queue' = work_queue
                /\ preprocessing_future' = preprocessing_future
                /\ rag_future' = rag_future
                /\ preprocessing_invoked' = preprocessing_invoked]_vars

\* A /rag/query request was refused because qa_chain alone is None.
C6_Witness ==
    \E r \in Requests :
        /\ handler[r] = "returned"
        /\ endpoint[r] = "query"
        /\ outcome[r] = NotInitializedError
        /\ qa_chain = None
        /\ preprocessing_chain # None

AllFlags(components, b) ==
    /\ components.llm = b
    /\ components.retriever = b
    /\ components.qa_chain = b
    /\ components.preprocessing_chain = b

\* C7: a /health report made before lifespan ran has its four flags false,
\* a report made once startup has completed has its four flags true.
C7_HealthFlags ==
    health.status # None =>
        /\ health.status = "healthy"
        /\ health.at = "start" => AllFlags(health.components, FALSE)
        /\ health.at \in {"serving", "stopped"} => AllFlags(health.components, TRUE)

\* C8: /warmup raises nothing: whatever rag_query did, it returns the
\* success status, or the warning status with a warning field.
C8_WarmupNeverRaises ==
    \A r \in Requests :
        (handler[r] = "returned" /\ endpoint[r] = "warmup") =>
            /\ ~reply[r].raised
            /\ IF outcome[r].kind = "RAGQueryResponse"
                 THEN reply[r].body = [status |-> "warmed up successfully"]
                 ELSE /\ reply[r].body.status = "warmup completed with warnings"
                      /\ "warning" \in DOMAIN reply[r].body

\* A warmup whose answer-generation task raised returned the warning.
C8_Witness ==
    \E r \in Requests :
        /\ handler[r] = "returned"
        /\ endpoint[r] = "warmup"
        /\ IsException(rag_future[r].result)
        /\ ~reply[r].raised
        /\ reply[r].body.warning.text = "RAG pipeline failed: "

\* C9: once shutdown has begun the executor takes no new task, and when it
\* has returned no task is queued or running: every task submitted before
\* has ended.
C9_ShutdownWaitsForTasks ==
    /\ [](lifespan_pc = "stopped" =>
            /\ pool_shutdown
            /\ work_queue = <<>>
            /\ \A r \in Requests :
                 ~Pending(preprocessing_future[r]) /\ ~Pending(rag_future[r]))
    /\ [][pool_shutdown =>
            /\ pool_shutdown'
            /\ Len(work_queue') <= Len(work_queue)
            /\ \A r \in Requests :
                 /\ preprocessing_future[r].state = "none" =>
                      preprocessing_future'[r].state = "none"
                 /\ rag_future[r].state = "none" => rag_future'[r].state = "none"]_vars

\* Shutdown is waiting while a task runs and another is still queued.
C9_Witness ==
    /\ lifespan_pc = "shutdown_wait"
    /\ work_queue # <<>>
    /\ \E r \in Requests : preprocessing_future[r].state = "running"

\* C10: the sources of a response are None when the answer-generation task
\* gave no raw sources or an empty list, and are never an empty list.
C10_SourcesAbsentOrNonEmpty ==
    \A r \in Requests :
        (handler[r] = "returned" /\ outcome[r].kind = "RAGQueryResponse") =>
            LET raw == RawSources(rag_future[r].result)
            IN  /\ (~raw.some \/ raw.list = <<>>) => outcome[r].sources = NoneList
                /\ outcome[r].sources.some => Len(outcome[r].sources.list) > 0
                /\ outcome[r].sources.some => Len(outcome[r].sources.list) = Len(raw.list)

\* A response was built from a record whose raw sources are the empty list.
C10_Witness ==
    \E r \in Requests :
        /\ handler[r] = "returned"
        /\ outcome[r].kind = "RAGQueryResponse"
        /\ RawSources(rag_future[r].result) = SomeList(<<>>)
        /\ outcome[r].sources = NoneList

\* ------------------------------------- format_sources_optimized alone
\* Documents around the preview limit, with and without a source.
FormatDocs ==
    { Doc(Content(n), src) :
        n \in {0, PreviewLen - 1, PreviewLen, PreviewLen + 1, PreviewLen + 50},
        src \in {"doc1", Absent} }

FormatInputs ==
    {NoneList} \cup
    { SomeList(l) : l \in UNION { [1 .. k -> FormatDocs] : k \in 0 .. MaxDocs } }

\* The application serves and a /rag/query request waits at its gather with
\* both tasks done; the answer-generation task returned a record whose
\* context is one of FormatInputs.
InitFormat ==
    /\ embeddings = "embeddings"
    /\ weaviate_client = "weaviate_client"
    /\ llm = "llm"
    /\ reranker = "reranker"
    /\ retriever = "retriever"
    /\ qa_chain = "qa_chain"
    /\ preprocessing_chain = "preprocessing_chain"
    /\ executor = "ThreadPoolExecutor"
    /\ lifespan_pc = "serving"
    /\ startup_error = None
    /\ pool_shutdown = FALSE
    /\ work_queue = <<>>
    /\ health = [status |-> None]
    /\ \E raw \in FormatInputs :
       \E q \in Questions :
       \E pre \in {Dict([classification |-> "traffic_law", rewritten_question |-> "rewritten"])} :
         /\ handler = [r \in 1 .. MaxRequests |-> IF r = 1 THEN "gather" ELSE "idle"]
         /\ endpoint = [r \in 1 .. MaxRequests |-> IF r = 1 THEN "query" ELSE None]
         /\ question = [r \in 1 .. MaxRequests |-> IF r = 1 THEN q ELSE None]
         /\ preprocessing_future =
              [r \in 1 .. MaxRequests |-> IF r = 1 THEN Done(pre) ELSE NoFuture]
         /\ preprocessing_invoked =
              [r \in 1 .. MaxRequests |-> IF r = 1 THEN pre ELSE NoResult]
         /\ rag_future =
              [r \in 1 .. MaxRequests |->
                 IF r = 1 THEN Done(Dict([answer |-> "the answer", context |-> raw]))
                          ELSE NoFuture]
         /\ outcome = [r \in 1 .. MaxRequests |-> NoOutcome]
         /\ reply = [r \in 1 .. MaxRequests |-> NoReply]

NextFormat == \E r \in Requests : RagQueryJoin(r)

SpecFormat == InitFormat /\ [][NextFormat]_vars

\* C11: every document gives one entry, in input order; its preview is the
\* content itself when the content has at most 200 characters, and the first
\* 200 characters followed by one "..." when it has more.
C11_PreviewBoundary ==
    \A r \in Requests :
        (handler[r] = "returned" /\ outcome[r].kind = "RAGQueryResponse"
            /\ RawSources(rag_future[r].result).some
            /\ RawSources(rag_future[r].result).list # <<>>) =>
            LET raw == RawSources(rag_future[r].result).list
                out == outcome[r].sources
            IN  /\ out.some
                /\ Len(out.list) = Len(raw)
                /\ \A i \in 1 .. Len(raw) :
                     LET content == raw[i].page_content
                         preview == out.list[i].preview
                     IN  /\ out.list[i].source =
                              IF raw[i].metadata.source = Absent
                                THEN "[No source]"
                                ELSE raw[i].metadata.source
                         /\ IF Len(content) > 200
                              THEN /\ Len(preview) = 203
                                   /\ SubSeq(preview, 1, 200) = SubSeq(content, 1, 200)
                                   /\ SubSeq(preview, 201, 203) = <<46, 46, 46>>
                              ELSE preview = content

\* A response built from a document of exactly 200 characters followed by
\* one of 201: the first preview is unmarked, the second is marked.
C11_Witness ==
    \E r \in Requests :
        /\ handler[r] = "returned"
        /\ outcome[r].kind = "RAGQueryResponse"
        /\ outcome[r].sources.some
        /\ Len(outcome[r].sources.list) = 2
        /\ Len(RawSources(rag_future[r].result).list[1].page_content) = 200
        /\ Len(RawSources(rag_future[r].result).list[2].page_content) = 201
        /\ Len(outcome[r].sources.list[1].preview) = 200
        /\ Len(outcome[r].sources.list[2].preview) = 203

\* ------------------------------------------------- lifespan, continued
BuildOrder ==
    <<"embeddings", "weaviate", "llm", "reranker", "retriever", "qa_chain",
      "preprocessing_chain">>

\* The retriever was built from its four components, the answer chain from
\* the LLM client and the retriever (lines 65-78).
DependenciesBuilt ==
    /\ retriever # None =>
         /\ weaviate_client # None
         /\ llm # None
         /\ reranker # None
         /\ embeddings # None
    /\ qa_chain # None => llm # None /\ retriever # None

\* C12: the build steps run in the order embedding model, database
\* connection, LLM client, reranker, retriever, answer chain, preprocessing
\* chain; a step starts only when every earlier step has given a component
\* that is not None, and no later component exists yet.
C12_StrictBuildOrder ==
    /\ DependenciesBuilt
    /\ \A k \in 1 .. Len(BuildOrder) :
         lifespan_pc = BuildOrder[k] =>
            /\ \A j \in 1 .. (k - 1) : registry[j] # None
            /\ \A j \in k .. Len(BuildOrder) : registry[j] = None

\* ------------------------------------------- concurrent /rag/query load
\* More requests than the executor has workers for: each request has two
\* tasks.  Both collaborators return the expected record, or qa_chain.invoke
\* raises.
LoadRequests == 3

LoadPreprocessingOutcomes ==
    { Dict([classification |-> "traffic_law", rewritten_question |-> "rewritten"]) }

LoadRagOutcomes ==
    { Dict([answer |-> "the answer", context |-> NoneList]),
      Exc("rag error") }

InitLoad == InitSlots(1 .. LoadRequests)

\* run_preprocessing / run_rag_pipeline of request r ends
FinishPreprocessing(r) ==
    \E invoked \in LoadPreprocessingOutcomes : WorkerFinishPreprocessing(r, invoked)

FinishRag(r) ==
    \E invoked \in LoadRagOutcomes : WorkerFinishRag(r, invoked)

NextLoad ==
    \/ LifespanStart
    \/ LoadEmbeddings
    \/ ConnectWeaviate
    \/ LoadLLM
    \/ LoadReranker
    \/ SetupRetriever
    \/ BuildQAChain
    \/ BuildPreprocessingChain
    \/ LifespanShutdown
    \/ ShutdownReturns
    \/ WorkerStart
    \/ \E r \in Requests :
         \/ \E q \in Questions : Query(r, q)
         \/ RagQueryJoin(r)
         \/ Respond(r)
         \/ FinishPreprocessing(r)
         \/ FinishRag(r)

SpecLoad == InitLoad /\ [][NextLoad]_vars

\* The executor hands a queued task to an idle worker, every collaborator
\* call ends, the event loop resumes a handler whose gather is done, and
\* executor.shutdown returns once the pool is idle.
FairLoad ==
    /\ WF_vars(WorkerStart)
    /\ WF_vars(ShutdownReturns)
    /\ \A r \in 1 .. LoadRequests :
         /\ WF_vars(FinishPreprocessing(r))
         /\ WF_vars(FinishRag(r))
         /\ WF_vars(RagQueryJoin(r))

SpecLoadFair == SpecLoad /\ FairLoad

\* C13: rag_query submits both tasks before it waits (both futures exist
\* whenever the handler is at its gather, and they are created in one
\* step), and no task waits for its sibling: the head of the queue can be
\* started whenever a worker is idle, and a running task can end, whatever
\* the state of the other task of the request.
C13_BothSubmittedNeitherWaits ==
    /\ [](\A r \in Requests :
            /\ handler[r] = "gather" =>
                 /\ preprocessing_future[r].state # "none"
                 /\ rag_future[r].state # "none"
            /\ preprocessing_future[r].state = "running" =>
                 ENABLED FinishPreprocessing(r)
            /\ rag_future[r].state = "running" => ENABLED FinishRag(r))
    /\ []((work_queue # <<>> /\ Cardinality(RunningTasks) < 4) => ENABLED WorkerStart)
    /\ [][\A r \in Requests :
            (preprocessing_future'[r].state # "none" /\ rag_future'[r].state # "none"
                /\ (preprocessing_future[r].state = "none"
                      \/ rag_future[r].state = "none")) =>
                /\ handler[r] = "idle"
                /\ handler'[r] = "gather"
                /\ preprocessing_future'[r] = Queued
                /\ rag_future'[r] = Queued]_vars

\* Both tasks of one request are running at the same time.
C13_Witness ==
    \E r \in Requests :
        /\ handler[r] = "gather"
        /\ preprocessing_future[r].state = "running"
        /\ rag_future[r].state = "running"

\* C14: at most 4 tasks are executing at any moment; a request that starts
\* while all 4 workers are busy has its two tasks appended to the queue.
C14_AtMostFourRunning ==
    /\ [](Cardinality(RunningTasks) <= 4)
    /\ [](Cardinality(RunningTasks) + Len(work_queue)
            = Cardinality({r \in Requests : Pending(preprocessing_future[r])})
              + Cardinality({r \in Requests : Pending(rag_future[r])}))
    /\ [][\A r \in Requests :
            (handler[r] = "idle" /\ handler'[r] # "idle"
                /\ Cardinality(RunningTasks) = 4) =>
                /\ handler'[r] = "gather"
                /\ work_queue' = work_queue \o <<<<r, "preprocessing">>, <<r, "rag">>>>
                /\ Cardinality(RunningTasks') = 4]_vars

\* All 4 workers are busy and the two tasks of a third request are queued.
C14_Witness ==
    /\ Cardinality(RunningTasks) = 4
    /\ Len(work_queue) = 2
    /\ \E r \in Requests : handler[r] = "gather" /\ rag_future[r].state = "queued"

\* C15: under FairLoad every request that submitted its two tasks gets its
\* outcome.
C15_EveryRequestEnds ==
    \A r \in 1 .. LoadRequests : (handler[r] = "gather") ~> (handler[r] = "returned")

\* A request got its outcome after waiting in the queue behind 4 busy workers.
C15_Witness ==
    \E r \in Requests :
        /\ handler[r] = "returned"
        /\ GatherDone(r)
        /\ \A x \in Requests \ {r} :
             handler[x] = "gather"

\* --------------------------------------------------- the response's fields
\* A request got a RAGQueryResponse built from the value of its
\* answer-generation task.
ResponseBuilt(r) == AnswerGenerated(r) /\ outcome[r].kind = "RAGQueryResponse"

\* C16 (as stated): the answer of a response built from a record is the
\* record's answer field, its sources are derived from the record's raw
\* sources; the answer of a response built from a value that is no record is
\* the value as text, and its sources are absent.
C16_AnswerIsAnswerField ==
    \A r \in Requests :
        ResponseBuilt(r) =>
            LET v == rag_future[r].result
            IN  IF IsDict(v)
                  THEN /\ outcome[r].answer = v.items.answer
                       /\ outcome[r].sources = format_sources_optimized(v.items.context)
                  ELSE /\ outcome[r].answer = v.s
                       /\ outcome[r].sources = NoneList

\* C16 (amended): as above, except that a record without an answer field
\* gives the printed record as the answer (the default of line 180).
C16_AnswerFieldOrPrintedRecord ==
    \A r \in Requests :
        ResponseBuilt(r) =>
            LET v == rag_future[r].result
            IN  IF IsDict(v)
                  THEN /\ outcome[r].answer =
                            IF v.items.answer = Absent THEN "{printed dict}"
                                                       ELSE v.items.answer
                       /\ outcome[r].sources = format_sources_optimized(v.items.context)
                       /\ ~v.items.context.some => outcome[r].sources = NoneList
                  ELSE /\ outcome[r].answer = v.s
                       /\ outcome[r].sources = NoneList

\* A response was built from a record that has an answer and two documents.
C16_Witness ==
    \E r \in Requests :
        /\ ResponseBuilt(r)
        /\ IsDict(rag_future[r].result)
        /\ outcome[r].answer = "the answer"
        /\ outcome[r].sources.some
        /\ Len(outcome[r].sources.list) = 2

\* C17: a finished rag_query call has exactly one of two outcomes: a
\* RAGQueryResponse whose classification, rewritten_question and answer are
\* neither None nor missing, or an HTTPException of status 500 whose detail
\* is one of the three messages of rag_query; /rag/query returns the first
\* and raises the second, and nothing else.
C17_ResponseOrError500 ==
    \A r \in Requests :
        handler[r] = "returned" =>
            /\ \/ /\ outcome[r].kind = "RAGQueryResponse"
                  /\ outcome[r].classification \notin {None, Absent}
                  /\ outcome[r].rewritten_question \notin {None, Absent}
                  /\ outcome[r].answer \notin {None, Absent}
                  /\ endpoint[r] = "query" => reply[r] = [raised |-> FALSE, body |-> outcome[r]]
               \/ /\ outcome[r].kind = "HTTPException"
                  /\ outcome[r].status_code = 500
                  /\ outcome[r].detail.text \in
                       {"RAG pipeline not initialized.", "RAG pipeline failed: ",
                        "Error during RAG pipeline: "}
                  /\ endpoint[r] = "query" => reply[r] = [raised |-> TRUE, body |-> outcome[r]]

\* A /rag/query request whose response failed validation (null answer) ended
\* with the 500 error.
C17_Witness ==
    \E r \in Requests :
        /\ handler[r] = "returned"
        /\ endpoint[r] = "query"
        /\ GatherDone(r)
        /\ ~IsException(rag_future[r].result)
        /\ outcome[r].kind = "HTTPException"
        /\ outcome[r].detail = [text |-> "Error during RAG pipeline: ", cause |-> "ValidationError"]

\* ------------------------------------------------- the registry is read-only
\* lifespan has reached its yield (line 86).
InitializationCompleted == lifespan_pc \in {"serving", "shutdown_wait", "stopped"}

\* C18: once lifespan has reached its yield, no step (a route handler, a
\* worker task, the shutdown) changes one of the seven components or the
\* executor handle.
C18_RegistryReadOnly ==
    [][InitializationCompleted =>
         /\ embeddings' = embeddings
         /\ weaviate_client' = weaviate_client
         /\ llm' = llm
         /\ reranker' = reranker
         /\ retriever' = retriever
         /\ qa_chain' = qa_chain
         /\ preprocessing_chain' = preprocessing_chain
         /\ executor' = executor]_vars

\* A request and a health check were handled after initialization, and the
\* seven components and the executor are still in place.
C18_Witness ==
    /\ lifespan_pc = "serving"
    /\ health.status = "healthy"
    /\ health.at = "serving"
    /\ \E r \in Requests : handler[r] = "returned" /\ outcome[r].kind = "RAGQueryResponse"
    /\ \A c \in {embeddings, weaviate_client, llm, reranker, retriever, qa_chain,
                 preprocessing_chain, executor} : c # None

\* ------------------------------------------- the preprocessing task's end
\* C19: the preprocessing future never holds an exception: when
\* preprocessing_chain.invoke raised, the future holds the fallback record
\* with classification "unknown" and the request's question; so the gather
\* of rag_query never hands an exception to the isinstance test of line 167.
C19_PreprocessingNeverFails ==
    \A r \in Requests :
        preprocessing_future[r].state = "done" =>
            /\ preprocessing_future[r].result.type # "Exception"
            /\ preprocessing_invoked[r].type = "Exception" =>
                 preprocessing_future[r].result =
                     [type |-> "dict",
                      items |-> [classification |-> "unknown",
                                 rewritten_question |-> question[r]]]
            /\ preprocessing_invoked[r].type # "Exception" =>
                 preprocessing_future[r].result = preprocessing_invoked[r]

\* preprocessing_chain.invoke raised, both tasks are done and the handler is
\* about to read the gather's results.
C19_Witness ==
    \E r \in Requests :
        /\ handler[r] = "gather"
        /\ preprocessing_invoked[r].type = "Exception"
        /\ preprocessing_future[r].state = "done"
        /\ rag_future[r].state = "done"

\* ------------------------------------------------ the executor's lifetime
\* C20: the executor exists before the first build step starts; it is shut
\* down only by the code after lifespan's yield, which runs only when every
\* build step went through; when a build step failed, lifespan has ended and
\* the executor it created is never shut down.
C20_PoolShutdownOnlyAfterStartup ==
    /\ [](lifespan_pc # "start" => executor # None)
    /\ [](pool_shutdown => lifespan_pc \in {"shutdown_wait", "stopped"})
    /\ [](lifespan_pc = "failed" => startup_error # None /\ ~pool_shutdown)
    /\ [][/\ lifespan_pc = "failed" => lifespan_pc' = "failed" /\ ~pool_shutdown'
          /\ lifespan_pc' \in {"shutdown_wait", "stopped"} =>
               lifespan_pc \in {"serving", "shutdown_wait", "stopped"}
          /\ lifespan_pc # "start" => executor' = executor]_vars

\* The third build step failed after two components were loaded: lifespan
\* has ended and the executor is not shut down.
C20_Witness ==
    /\ lifespan_pc = "failed"
    /\ embeddings # None
    /\ weaviate_client # None
    /\ llm = None
    /\ executor # None
    /\ ~pool_shutdown

====
